---- MODULE Spec2Model ----
(***************************************************************************)
(* Model of the compliance core of neuro-occ: the FDTL rule validator      *)
(* (dgca_rules/validator.py), its use by the brain API (brain_api.py), by  *)
(* the proposer/verifier agent (llm/system_2_agent.py, llm/local_llm.py)   *)
(* and by the demonstration loop (scripts/mvp_demo.py).                    *)
(*                                                                         *)
(* Numbers of hours are integers counting tenths of an hour (8.0 h = 80,   *)
(* 2.1 h = 21), so that the comparisons of the code keep their meaning.    *)
(* A Python dict is a function whose DOMAIN is the set of keys present.    *)
(***************************************************************************)
EXTENDS Integers, Sequences, FiniteSets, TLC

VARIABLES
    program,         \* the program the process runs (each builds its own objects)
    config,          \* the document found at config_path when a validator is built
    validator,       \* the object built by FDTLValidator(config_path) (tests, mvp_demo)
    fdtl_validator,  \* brain_api's module global: the validator, or None
    agent,           \* the System2Agent object of system_2_agent's main program
    call             \* the call in progress or just finished, and what it gave back

vars == <<program, config, validator, fdtl_validator, agent, call>>

\* ------------------------------------------------------------------ dicts

EmptyDict == [k \in {} |-> 0]

\* d.get(k, default)
Get(d, k, default) == IF k \in DOMAIN d THEN d[k] ELSE default

Restrict(d, S) == [k \in S |-> d[k]]

\* ------------------------------------------------------------- rule sets

RuleKeys == {"max_daily_flight_time", "weekly_flight_time_limit",
             "max_consecutive_night_duties", "mandatory_night_rest_hours"}

\* the 'dgca_fdtl' section the tests write (8.0 h, 35.0 h, 2 duties, 56.0 h)
TestRules == [max_daily_flight_time |-> 80,
              weekly_flight_time_limit |-> 350,
              max_consecutive_night_duties |-> 2,
              mandatory_night_rest_hours |-> 560]

\* another complete section, so that the limits are inputs and not constants
OtherRules == [max_daily_flight_time |-> 100,
               weekly_flight_time_limit |-> 340,
               max_consecutive_night_duties |-> 3,
               mandatory_night_rest_hours |-> 240]

\* sections a configuration file may hold: the complete ones, the ones lacking
\* one key, and the empty one
RuleSections ==
    {OtherRules, EmptyDict}
    \cup { Restrict(TestRules, RuleKeys \ K) : K \in {{}} \cup {{k} : k \in RuleKeys} }

RulesComplete(rules) == RuleKeys \subseteq DOMAIN rules

\* ------------------------------------------------- configuration documents

\* What open() and yaml.safe_load() give for the file at config_path:
\*   absent    - there is no such file
\*   malformed - the file is not YAML
\*   document  - a YAML document; it is a mapping or not (an empty file loads
\*               as None, a list or a scalar is no mapping), and a mapping has
\*               a 'dgca_fdtl' section or not
Document(kind, mapping, section, rules) ==
    [kind |-> kind, mapping |-> mapping, section |-> section, rules |-> rules]

Configs ==
    {Document("absent", FALSE, FALSE, EmptyDict),
     Document("malformed", FALSE, FALSE, EmptyDict),
     Document("document", FALSE, FALSE, EmptyDict),
     Document("document", TRUE, FALSE, EmptyDict)}
    \cup { Document("document", TRUE, TRUE, r) : r \in RuleSections }

\* ------------------------------------------------ FDTLValidator.__init__

Built(rules) == [state |-> "built", rules |-> rules, exc |-> "none"]
Failed(exc) == [state |-> "failed", rules |-> EmptyDict, exc |-> exc]
NotBuilt == [state |-> "none", rules |-> EmptyDict, exc |-> "none"]

\* the constructor reading the section with a default, config.get('dgca_fdtl', {})
FDTLValidator_init_DefaultSection(cfg) ==
    IF cfg.kind = "absent" THEN Failed("FileNotFoundError")
    ELSE IF cfg.kind = "malformed" THEN Failed("ValueError")
    ELSE IF ~cfg.mapping THEN Failed("TypeError")
    ELSE IF ~cfg.section THEN Built(EmptyDict)
    ELSE Built(cfg.rules)

\* open() raises FileNotFoundError, re-raised; safe_load raises YAMLError,
\* re-raised as ValueError; subscripting a document that is no mapping raises
\* TypeError, which no handler catches; a mapping without the key raises
\* KeyError, re-raised; otherwise self.rules is the section, whatever it holds.
FDTLValidator_init(cfg) ==
    IF cfg.kind = "absent" THEN Failed("FileNotFoundError")
    ELSE IF cfg.kind = "malformed" THEN Failed("ValueError")
    ELSE IF ~cfg.mapping THEN Failed("TypeError")
    ELSE IF ~cfg.section THEN Failed("KeyError")
    ELSE Built(cfg.rules)

\* ------------------------------------- FDTLValidator.validate_assignment

Return(compliant, msg, args) ==
    [kind |-> "return", compliant |-> compliant, msg |-> msg, args |-> args,
     exc |-> "none"]
Raise(exc) ==
    [kind |-> "raise", compliant |-> FALSE, msg |-> "", args |-> <<>>, exc |-> exc]

DailyReason == "Exceeds max daily flight time of {0} hours."
NightReason == "Rule violation: {0} consecutive night duties require {1}h rest."
WeeklyReason == "Exceeds {0}-hour weekly flight limit."
CompliantReason == "Compliant"

\* the daily check without the proposed flight's hours
DailyExceeded_IgnoresFlight(rules, current_daily_hours, proposed_hours) ==
    current_daily_hours > rules["max_daily_flight_time"]

\* the daily check rejecting a flight that exactly reaches the cap
DailyExceeded_AtCap(rules, current_daily_hours, proposed_hours) ==
    (current_daily_hours + proposed_hours) >= rules["max_daily_flight_time"]

\* the daily check with the proposed hours taken off instead of added
DailyExceeded_Subtracts(rules, current_daily_hours, proposed_hours) ==
    (current_daily_hours - proposed_hours) > rules["max_daily_flight_time"]

\* line 40
DailyExceeded(rules, current_daily_hours, proposed_hours) ==
    (current_daily_hours + proposed_hours) > rules["max_daily_flight_time"]

\* the night-duty count compared with > instead of >=
NightDutiesReached_Strict(rules, consecutive_nights) ==
    consecutive_nights > rules["max_consecutive_night_duties"]

\* line 47
NightDutiesReached(rules, consecutive_nights) ==
    consecutive_nights >= rules["max_consecutive_night_duties"]

\* line 48
RestTooShort(rules, last_rest_hours) ==
    last_rest_hours < rules["mandatory_night_rest_hours"]

\* the weekly check without the proposed flight's hours
WeeklyExceeded_IgnoresFlight(rules, weekly_hours, proposed_hours) ==
    weekly_hours > rules["weekly_flight_time_limit"]

\* line 53
WeeklyExceeded(rules, weekly_hours, proposed_hours) ==
    (weekly_hours + proposed_hours) > rules["weekly_flight_time_limit"]

\* the checks in the order daily, weekly, night
validate_assignment_WeeklyBeforeNight(rules, pilot_data, proposed_flight) ==
    LET proposed_hours == Get(proposed_flight, "duration_hours", 0)
        current_daily_hours == Get(pilot_data, "daily_flight_hours", 0)
        consecutive_nights == Get(pilot_data, "consecutive_night_duties", 0)
        last_rest_hours == Get(pilot_data, "hours_since_last_rest", 0)
        weekly_hours == Get(pilot_data, "weekly_flight_hours", 0)
    IN  IF ~RulesComplete(rules) THEN Raise("KeyError")
        ELSE IF DailyExceeded(rules, current_daily_hours, proposed_hours)
        THEN Return(FALSE, DailyReason, <<rules["max_daily_flight_time"]>>)
        ELSE IF WeeklyExceeded(rules, weekly_hours, proposed_hours)
        THEN Return(FALSE, WeeklyReason, <<rules["weekly_flight_time_limit"]>>)
        ELSE IF NightDutiesReached(rules, consecutive_nights)
                /\ RestTooShort(rules, last_rest_hours)
        THEN Return(FALSE, NightReason,
                    <<consecutive_nights, rules["mandatory_night_rest_hours"]>>)
        ELSE Return(TRUE, CompliantReason, <<>>)

\* self.rules[k] raises KeyError when the section lacks k; the keys are read
\* in the order of the code, each only when its check is reached.
validate_assignment(rules, pilot_data, proposed_flight) ==
    LET proposed_hours == Get(proposed_flight, "duration_hours", 0)
        current_daily_hours == Get(pilot_data, "daily_flight_hours", 0)
        consecutive_nights == Get(pilot_data, "consecutive_night_duties", 0)
        last_rest_hours == Get(pilot_data, "hours_since_last_rest", 0)
        weekly_hours == Get(pilot_data, "weekly_flight_hours", 0)
    IN  IF "max_daily_flight_time" \notin DOMAIN rules THEN Raise("KeyError")
        ELSE IF DailyExceeded(rules, current_daily_hours, proposed_hours)
        THEN Return(FALSE, DailyReason, <<rules["max_daily_flight_time"]>>)
        ELSE IF "max_consecutive_night_duties" \notin DOMAIN rules
        THEN Raise("KeyError")
        ELSE IF NightDutiesReached(rules, consecutive_nights)
                /\ "mandatory_night_rest_hours" \notin DOMAIN rules
        THEN Raise("KeyError")
        ELSE IF NightDutiesReached(rules, consecutive_nights)
                /\ RestTooShort(rules, last_rest_hours)
        THEN Return(FALSE, NightReason,
                    <<consecutive_nights, rules["mandatory_night_rest_hours"]>>)
        ELSE IF "weekly_flight_time_limit" \notin DOMAIN rules
        THEN Raise("KeyError")
        ELSE IF WeeklyExceeded(rules, weekly_hours, proposed_hours)
        THEN Return(FALSE, WeeklyReason, <<rules["weekly_flight_time_limit"]>>)
        ELSE Return(TRUE, CompliantReason, <<>>)

\* ---------------------- validate_assignment, statement by statement

\* One validate_assignment call running beside others on the same validator:
\* pc is the statement it is at, locals its local variables, out what it
\* returned or raised once pc = "done". overlapped records that it took a
\* step while another call was between its first and its last statement.
ThreadAt(pilot_data, proposed_flight) ==
    [pc |-> "start", pilot |-> pilot_data, flight |-> proposed_flight,
     locals |-> EmptyDict, out |-> [kind |-> "none"], overlapped |-> FALSE]

\* the locals kept on the validator, which all the calls share
store_locals_OnSelf(threads, t, new) ==
    [u \in DOMAIN threads |-> [threads[u] EXCEPT !.locals = new @@ @]]

\* an assignment to local variables: each call has its own frame
store_locals(threads, t, new) ==
    [threads EXCEPT ![t].locals = new @@ @]

\* validator.py lines 36-56, the next statements of call t: the reads of the
\* inputs (36, 39), the daily check (40-41) and the reads of 44-45, the night
\* check (47-49) and the read of 52, the weekly check and the return (53-56).
\* Every check reads self.rules when it runs.
validate_step(rules, threads, t) ==
    LET th == threads[t]
        l == th.locals
        finish(out) == [threads EXCEPT ![t].pc = "done", ![t].out = out]
        goto(pc, new) == [store_locals(threads, t, new) EXCEPT ![t].pc = pc]
    IN  CASE th.pc = "start" ->
               goto("daily",
                    [proposed_hours |-> Get(th.flight, "duration_hours", 0),
                     current_daily_hours |-> Get(th.pilot, "daily_flight_hours", 0)])
          [] th.pc = "daily" ->
               IF "max_daily_flight_time" \notin DOMAIN rules
               THEN finish(Raise("KeyError"))
               ELSE IF DailyExceeded(rules, l.current_daily_hours, l.proposed_hours)
               THEN finish(Return(FALSE, DailyReason,
                                  <<rules["max_daily_flight_time"]>>))
               ELSE goto("night",
                         [consecutive_nights |->
                            Get(th.pilot, "consecutive_night_duties", 0),
                          last_rest_hours |->
                            Get(th.pilot, "hours_since_last_rest", 0)])
          [] th.pc = "night" ->
               IF "max_consecutive_night_duties" \notin DOMAIN rules
               THEN finish(Raise("KeyError"))
               ELSE IF NightDutiesReached(rules, l.consecutive_nights)
                       /\ "mandatory_night_rest_hours" \notin DOMAIN rules
               THEN finish(Raise("KeyError"))
               ELSE IF NightDutiesReached(rules, l.consecutive_nights)
                       /\ RestTooShort(rules, l.last_rest_hours)
               THEN finish(Return(FALSE, NightReason,
                                  <<l.consecutive_nights,
                                    rules["mandatory_night_rest_hours"]>>))
               ELSE goto("weekly",
                         [weekly_hours |-> Get(th.pilot, "weekly_flight_hours", 0)])
          [] th.pc = "weekly" ->
               IF "weekly_flight_time_limit" \notin DOMAIN rules
               THEN finish(Raise("KeyError"))
               ELSE IF WeeklyExceeded(rules, l.weekly_hours, l.proposed_hours)
               THEN finish(Return(FALSE, WeeklyReason,
                                  <<rules["weekly_flight_time_limit"]>>))
               ELSE finish(Return(TRUE, CompliantReason, <<>>))

\* ------------------------------------------------------ action descriptions

\* An action description after .lower(), as the list of its words (.split()).
\* Of a long description the model keeps, in their order, the words that hold a
\* keyword or a digit and the words around a number; the other words change
\* nothing the code reads.
Words == {"delay", "delay_flight", "cancel", "cancel_flight", "cancelled",
          "swap", "swap_aircraft", "reassign", "reassign_crew", "ground",
          "ground_aircraft", "divert", "hours", "hour",
          "flight", "aircraft", "by", "for", "with", "activate", "implement",
          "call",
          "1", "2", "3", "4", "6", "1.5", "two", "ai-203",
          "{duration}", "{delay_hours}"}

\* WordHas[w]: the keywords that are substrings of the word w
WordHas == [w \in Words |->
    CASE w \in {"delay", "delay_flight"} -> {"delay"}
      [] w \in {"cancel", "cancel_flight", "cancelled"} -> {"cancel"}
      [] w \in {"swap", "swap_aircraft"} -> {"swap"}
      [] w \in {"reassign", "reassign_crew"} -> {"reassign"}
      [] w \in {"ground", "ground_aircraft"} -> {"ground"}
      [] w = "divert" -> {"divert"}
      [] w \in {"hours", "hour"} -> {"hour"}
      [] OTHER -> {}]

\* kw in action: the keywords hold no blank, so one word holds the match
In(kw, action) == \E i \in 1..Len(action) : kw \in WordHas[action[i]]

\* float(w) in tenths of an hour, for the words float() parses; on any other
\* word float() raises ValueError
FloatOf == [w \in {"1", "2", "3", "4", "6", "1.5"} |->
    CASE w = "1" -> 10 [] w = "2" -> 20 [] w = "3" -> 30 [] w = "4" -> 40
      [] w = "6" -> 60 [] w = "1.5" -> 15]

\* float of the first run of digits (\d+) of a word that holds a digit
DigitsOf == [w \in {"1", "2", "3", "4", "6", "1.5", "ai-203"} |->
    CASE w = "1" -> 10 [] w = "2" -> 20 [] w = "3" -> 30 [] w = "4" -> 40
      [] w = "6" -> 60 [] w = "1.5" -> 10 [] w = "ai-203" -> 2030]

\* brain_api lines 152-160, system_2_agent lines 89-96: the word before the
\* first word that holds "hour" and is not the first word, as a float; 2.0 when
\* there is none or when float() raises (the bare except)
HoursBeforeHourWord(words) ==
    LET at == {i \in 2..Len(words) : "hour" \in WordHas[words[i]]}
    IN  IF at = {} THEN 20
        ELSE LET i == CHOOSE j \in at : \A k \in at : j <= k
             IN  IF words[i-1] \in DOMAIN FloatOf THEN FloatOf[words[i-1]] ELSE 20

\* brain_api lines 147-164
brain_duration_hours(action) ==
    IF In("delay", action) THEN HoursBeforeHourWord(action)
    ELSE IF In("cancel", action) THEN 0
    ELSE IF In("swap", action) THEN 10
    ELSE 20

\* ------------------------------------------------ brain_api._validate_with_fdtl

FdtlResult(compliant, violations, reason) ==
    [kind |-> "return", compliant |-> compliant, violations |-> violations,
     violation_count |-> Len(violations), reason |-> reason, exc |-> "none"]

FdtlRaise(exc) ==
    [kind |-> "raise", compliant |-> FALSE, violations |-> <<>>,
     violation_count |-> 0, reason |-> <<"", <<>>>>, exc |-> exc]

\* fv is the module global fdtl_validator: None (state "failed") is falsy
validate_with_fdtl(fv, action, pilot_data) ==
    IF fv.state # "built"
    THEN FdtlResult(TRUE, <<>>, <<"Validator not initialized", <<>>>>)
    ELSE LET proposed_flight == [duration_hours |-> brain_duration_hours(action)]
             r == validate_assignment(fv.rules, pilot_data, proposed_flight)
         IN  IF r.kind = "raise" THEN FdtlRaise(r.exc)
             ELSE FdtlResult(r.compliant,
                             IF ~r.compliant
                             THEN <<[rule |-> "fdtl_violation",
                                     description |-> <<r.msg, r.args>>,
                                     severity |-> "high"]>>
                             ELSE <<>>,
                             <<r.msg, r.args>>)

\* ------------------- brain_api.generate_recovery_proposals, step 5 (verification)

DataConsistencyError(pilot_id) ==
    [rule |-> "data_consistency_error",
     description |-> <<"Proposed pilot_id '{0}' does not exist in the provided context.",
                       <<pilot_id>>>>,
     severity |-> "high"]

\* the state of the loop: the two locals all_actions_compliant and violations,
\* the exception that ended it, and validated, the pairs <<position of the
\* action, pilot data>> that were passed to _validate_with_fdtl
Verification(compliant, violations, validated, exc) ==
    [all_actions_compliant |-> compliant, violations |-> violations,
     validated |-> validated, exc |-> exc]

\* f"{action['action_type']} {action.get('flight_id', '')}".lower().split()
PlanActionText(action) ==
    LET type == CASE action.action_type = "REASSIGN_CREW" -> "reassign_crew"
                  [] action.action_type = "CANCEL_FLIGHT" -> "cancel_flight"
                  [] action.action_type = "DELAY_FLIGHT" -> "delay_flight"
                  [] action.action_type = "SWAP_AIRCRAFT" -> "swap_aircraft"
                  [] action.action_type = "GROUND_AIRCRAFT" -> "ground_aircraft"
    IN  IF "flight_id" \in DOMAIN action THEN <<type, action.flight_id>>
        ELSE <<type>>

\* the verification validating every action with the data of the first pilot
\* of the context when the action names none
verify_action_AnyPilot(fv, pilots_map, action, i, acc) ==
    IF "action_type" \notin DOMAIN action
    THEN [acc EXCEPT !.exc = "KeyError"]
    ELSE IF action.action_type = "REASSIGN_CREW"
            /\ Get(action, "pilot_id", "None") \notin DOMAIN pilots_map
    THEN [acc EXCEPT !.all_actions_compliant = FALSE,
                     !.violations = Append(@, DataConsistencyError(
                                                 Get(action, "pilot_id", "None")))]
    ELSE IF DOMAIN pilots_map = {} THEN acc
    ELSE LET pilot_data == IF action.action_type = "REASSIGN_CREW"
                           THEN pilots_map[action.pilot_id]
                           ELSE pilots_map[CHOOSE id \in DOMAIN pilots_map : TRUE]
             r == validate_with_fdtl(fv, PlanActionText(action), pilot_data)
             seen == [acc EXCEPT !.validated = Append(@, <<i, pilot_data>>)]
         IN  IF r.kind = "raise" THEN [seen EXCEPT !.exc = r.exc]
             ELSE IF ~r.compliant
             THEN [seen EXCEPT !.all_actions_compliant = FALSE,
                               !.violations = @ \o r.violations]
             ELSE seen

\* brain_api lines 395-425, one turn of the loop: action['action_type'] raises
\* KeyError when the key is missing; a REASSIGN_CREW action whose pilot_id
\* (None when missing) is no key of pilots_map adds a data_consistency_error;
\* any other action type leaves pilot_data_for_action None and is skipped; a
\* pilot record of the context holds its 'pilot_id', so it is never falsy.
verify_action(fv, pilots_map, action, i, acc) ==
    IF "action_type" \notin DOMAIN action
    THEN [acc EXCEPT !.exc = "KeyError"]
    ELSE IF action.action_type = "REASSIGN_CREW"
            /\ Get(action, "pilot_id", "None") \notin DOMAIN pilots_map
    THEN [acc EXCEPT !.all_actions_compliant = FALSE,
                     !.violations = Append(@, DataConsistencyError(
                                                 Get(action, "pilot_id", "None")))]
    ELSE IF action.action_type # "REASSIGN_CREW" THEN acc
    ELSE LET pilot_data == pilots_map[action.pilot_id]
             r == validate_with_fdtl(fv, PlanActionText(action), pilot_data)
             seen == [acc EXCEPT !.validated = Append(@, <<i, pilot_data>>)]
         IN  IF r.kind = "raise" THEN [seen EXCEPT !.exc = r.exc]
             ELSE IF ~r.compliant
             THEN [seen EXCEPT !.all_actions_compliant = FALSE,
                               !.violations = @ \o r.violations]
             ELSE seen

RECURSIVE verify_from(_, _, _, _, _)
\* brain_api lines 391-425: the loop over plan.get("actions", []) from the
\* i-th action on; an exception ends it
verify_from(fv, pilots_map, actions, i, acc) ==
    IF i > Len(actions) \/ acc.exc # "none" THEN acc
    ELSE verify_from(fv, pilots_map, actions, i + 1,
                     verify_action(fv, pilots_map, actions[i], i, acc))

\* brain_api lines 391-425
verify_plan(fv, pilots_map, actions) ==
    verify_from(fv, pilots_map, actions, 1, Verification(TRUE, <<>>, <<>>, "none"))

\* ------------------------- brain_api._calculate_plan_cost and the response

\* brain_api lines 327-333, in USD
COST_MODEL ==
    [CANCEL_FLIGHT |-> 15000, DELAY_FLIGHT_PER_MINUTE |-> 100,
     SWAP_AIRCRAFT |-> 5000, REASSIGN_CREW |-> 1000, GROUND_AIRCRAFT |-> 2000]

\* the cost model charging a delay one minute's rate whatever its length
action_cost_FlatDelay(action) ==
    LET action_type == Get(action, "action_type", "None")
    IN  CASE action_type = "CANCEL_FLIGHT" -> COST_MODEL.CANCEL_FLIGHT
          [] action_type = "DELAY_FLIGHT" -> COST_MODEL.DELAY_FLIGHT_PER_MINUTE
          [] action_type = "SWAP_AIRCRAFT" -> COST_MODEL.SWAP_AIRCRAFT
          [] action_type = "REASSIGN_CREW" -> COST_MODEL.REASSIGN_CREW
          [] action_type = "GROUND_AIRCRAFT" -> COST_MODEL.GROUND_AIRCRAFT
          [] OTHER -> 0

\* brain_api lines 337-348, what one turn of the loop adds to total_cost: an
\* action of no listed type adds nothing
action_cost(action) ==
    LET action_type == Get(action, "action_type", "None")
    IN  CASE action_type = "CANCEL_FLIGHT" -> COST_MODEL.CANCEL_FLIGHT
          [] action_type = "DELAY_FLIGHT" ->
               Get(action, "delay_minutes", 0) * COST_MODEL.DELAY_FLIGHT_PER_MINUTE
          [] action_type = "SWAP_AIRCRAFT" -> COST_MODEL.SWAP_AIRCRAFT
          [] action_type = "REASSIGN_CREW" -> COST_MODEL.REASSIGN_CREW
          [] action_type = "GROUND_AIRCRAFT" -> COST_MODEL.GROUND_AIRCRAFT
          [] OTHER -> 0

RECURSIVE total_cost_from(_, _, _)
\* brain_api lines 335-348: the loop from the i-th action on
total_cost_from(plan_actions, i, total_cost) ==
    IF i > Len(plan_actions) THEN total_cost
    ELSE total_cost_from(plan_actions, i + 1,
                         total_cost + action_cost(plan_actions[i]))

\* brain_api lines 320-351
calculate_plan_cost(plan_actions) == total_cost_from(plan_actions, 1, 0)

\* brain_api lines 427-447: the list the handler returns, with the keys of the
\* proposal that come from the verification and the cost (savings is the cost
\* in INR); an exception of the verification leaves nothing to return
recovery_proposals(verification, actions) ==
    IF verification.exc # "none" THEN <<>>
    ELSE << [savings |-> calculate_plan_cost(actions) * 80,
             compliant |-> verification.all_actions_compliant,
             violations |-> verification.violations,
             details |-> actions] >>

\* ------------------------------------------------------------- proposals

\* A proposal dict as reason_and_act handles it, without its 'reasoning'
\* text, which reason_and_act never reads. checked is not a key of the dict: it records the pilot data with
\* which the proposal was passed to validate_assignment, <<pilot>>, or <<>>
\* when it never was.
Proposal(action, cost, compliant, validation_reason, checked) ==
    [action |-> action, cost |-> cost, compliant |-> compliant,
     validation_reason |-> validation_reason, checked |-> checked]

\* ------------------------------------------------------------ llm/local_llm

DisruptionTypes == {"weather", "technical", "crew"}

\* local_llm lines 16-37, the templates of three of the five disruption types
action_templates == [t \in DisruptionTypes |->
    CASE t = "weather" ->
           << <<"implement", "ground", "for", "{duration}", "hours">>,
              <<"delay", "by", "{delay_hours}", "hours">>,
              <<"divert">>,
              <<"cancel">>,
              <<"activate", "with", "{delay_hours}", "hour">> >>
      [] t = "technical" ->
           << <<"ground">>,
              <<"swap">>,
              <<"delay", "by", "{delay_hours}", "hours">>,
              <<"implement">>,
              <<"activate">> >>
      [] t = "crew" ->
           << <<"reassign", "cancelled">>,
              <<"call">>,
              <<"implement">>,
              <<"delay", "by", "{delay_hours}", "hours">>,
              <<"activate">> >>]

\* local_llm lines 55-63
cost_ranges == [k \in {"delay", "cancel", "divert", "ground", "swap", "reassign",
                       "protocol"} |->
    CASE k = "delay" -> <<300, 800>>
      [] k = "cancel" -> <<2000, 5000>>
      [] k = "divert" -> <<800, 1500>>
      [] k = "ground" -> <<400, 900>>
      [] k = "swap" -> <<600, 1200>>
      [] k = "reassign" -> <<200, 600>>
      [] k = "protocol" -> <<100, 400>>]

\* local_llm lines 108-122: a disruption event is a string, with the keywords
\* it holds, or it is no string
extract_disruption_type(event) ==
    IF event.has \cap {"weather", "fog", "storm"} # {} THEN "weather"
    ELSE IF event.has \cap {"technical", "maintenance", "engine"} # {} THEN "technical"
    ELSE IF event.has \cap {"crew", "pilot", "fatigue"} # {} THEN "crew"
    ELSE "weather"

\* local_llm lines 142-147
fill_template(template, duration, delay_hours) ==
    [i \in 1..Len(template) |->
        IF template[i] = "{duration}" THEN duration
        ELSE IF template[i] = "{delay_hours}" THEN delay_hours
        ELSE template[i]]

\* local_llm lines 149-165: the range random.randint draws the cost from
estimate_cost_range(action) ==
    IF In("delay", action) THEN cost_ranges["delay"]
    ELSE IF In("cancel", action) THEN cost_ranges["cancel"]
    ELSE IF In("divert", action) THEN cost_ranges["divert"]
    ELSE IF In("ground", action) THEN cost_ranges["ground"]
    ELSE IF In("swap", action) THEN cost_ranges["swap"]
    ELSE IF In("reassign", action) THEN cost_ranges["reassign"]
    ELSE cost_ranges["protocol"]

\* local_llm lines 204-216: re.search(r'delay.*?(\d+)') finds the first run of
\* digits after the first "delay"
local_duration_hours(action) ==
    IF In("delay", action)
    THEN LET from == CHOOSE j \in 1..Len(action) :
                         /\ "delay" \in WordHas[action[j]]
                         /\ \A k \in 1..(j-1) : "delay" \notin WordHas[action[k]]
             at == {i \in (from+1)..Len(action) : action[i] \in DOMAIN DigitsOf}
         IN  IF at = {} THEN 20
             ELSE DigitsOf[action[CHOOSE j \in at : \A k \in at : j <= k]]
    ELSE IF In("cancel", action) THEN 0
    ELSE IF In("ground", action) THEN 10
    ELSE 20

\* local_llm lines 200-221: an exception of the validator is a False verdict
validate_proposal(rules, action, pilot_data) ==
    LET flight_data == [duration_hours |-> local_duration_hours(action)]
        r == validate_assignment(rules, pilot_data, flight_data)
    IN  IF r.kind = "raise"
        THEN <<FALSE, <<"Validation error: {0}", <<>>>>>>
        ELSE <<r.compliant, <<r.msg, r.args>>>>

\* the values the model lets random.randint(2, 6) and random.randint(1, 4) take
DurationDraws == {"2", "6"}
DelayHoursDraws == {"1", "4"}

\* local_llm lines 80-104: the proposals one template can become, over the
\* random draws (the numbers that fill it, the cost at an end of its range)
LocalProposals(rules, template, pilot_data) ==
    UNION { { LET v == validate_proposal(rules, action, pilot_data)
              IN  Proposal(action, cost, v[1], v[2], <<pilot_data>>) :
                cost \in { estimate_cost_range(action)[1],
                           estimate_cost_range(action)[2] } } :
            action \in { fill_template(template, d, h) :
                           d \in DurationDraws, h \in DelayHoursDraws } }

\* random.sample(templates, 3): three different templates, in any order
Samples == { s \in [1..3 -> 1..5] : \A i, j \in 1..3 : i # j => s[i] # s[j] }

\* ------------------------------------------------------ llm/system_2_agent

\* system_2_agent lines 86-100 (the same text as brain_api lines 147-164)
agent_duration_hours(action) ==
    IF In("delay", action) THEN HoursBeforeHourWord(action)
    ELSE IF In("cancel", action) THEN 0
    ELSE IF In("swap", action) THEN 10
    ELSE 20

\* system_2_agent lines 120-137
fallback_proposals ==
    << Proposal(<<"delay", "flight", "by", "2", "hours">>, 500, TRUE,
                <<"Basic delay within DGCA limits", <<>>>>, <<>>),
       Proposal(<<"swap", "aircraft">>, 1200, TRUE,
                <<"Aircraft swap within operational limits", <<>>>>, <<>>) >>

\* system_2_agent lines 102-105: the verdict of the verifier written into prop
Verified(rules, prop, pilot_data) ==
    LET flight_data == [duration_hours |-> agent_duration_hours(prop.action)]
        r == validate_assignment(rules, pilot_data, flight_data)
    IN  [raised |-> r.kind = "raise",
         prop |-> Proposal(prop.action, prop.cost, r.compliant, <<r.msg, r.args>>,
                           <<pilot_data>>)]

IsCompliant(prop) == prop.compliant

\* the selection keeping every evaluated proposal, compliant or not
valid_options_Unfiltered(evaluated) == evaluated

\* system_2_agent lines 83, 106-107: the proposals whose verdict is True, in
\* the order of the list
valid_options(evaluated) == SelectSeq(evaluated, IsCompliant)

NoPlans == "No valid recovery plans found that meet DGCA 2025 norms."

\* system_2_agent lines 146-153: the lines of one option; violation is the
\* VIOLATION line, <<>> when the memo has none for the option
memo_option(proposal) ==
    [action |-> Get(proposal, "action", "N/A"),
     status |-> IF Get(proposal, "compliant", FALSE) THEN "Compliant"
                ELSE "Non-compliant",
     reasoning |-> Get(proposal, "reasoning", "N/A"),
     cost |-> Get(proposal, "cost", "N/A"),
     violation |-> IF ~Get(proposal, "compliant", TRUE)
                   THEN <<Get(proposal, "validation_reason", "Unknown")>>
                   ELSE <<>>]

\* system_2_agent lines 139-155: an empty list is falsy
generate_explainability_memo(proposals) ==
    IF proposals = <<>> THEN [text |-> NoPlans, options |-> <<>>]
    ELSE [text |-> "RECOMMENDED RECOVERY STRATEGIES:",
          options |-> [i \in 1..Len(proposals) |-> memo_option(proposals[i])]]

NoAgent == [state |-> "none", verifier |-> EmptyDict, local_verifier |-> EmptyDict,
            openai_available |-> FALSE, exc |-> "none"]

\* ---------------------------------------------------- mcp_servers/reg_mcp

\* the rest check asking for more than two consecutive night duties
check_rest_compliance_Strict(consecutive_nights, rest_hours) ==
    IF consecutive_nights > 2 /\ rest_hours < 560
    THEN [compliant |-> FALSE,
          reason |-> "Rule Rule B: Consecutive night duties require 56h rest."]
    ELSE [compliant |-> TRUE]

\* reg_mcp lines 71-76, rest_hours in tenths of an hour
check_rest_compliance(consecutive_nights, rest_hours) ==
    IF consecutive_nights >= 2 /\ rest_hours < 560
    THEN [compliant |-> FALSE,
          reason |-> "Rule Rule B: Consecutive night duties require 56h rest."]
    ELSE [compliant |-> TRUE]

\* ------------------------------------------------------- scripts/mvp_demo

\* mvp_demo lines 6-12: the text System2Explainer.explain formats, as the
\* format string and its arguments
explain(plan, compliance_result) ==
    IF compliance_result.compliant
    THEN <<"The proposed plan '{0}' is optimal and fully compliant with DGCA FDTL rules.",
           <<plan>>>>
    ELSE <<"The proposed plan '{0}' was REJECTED because: {1}. Searching for alternatives...",
           <<plan, <<compliance_result.msg, compliance_result.args>>>>>>

Min(S) == CHOOSE x \in S : \A y \in S : x <= y

\* the loop without its break: every proposal is validated and the last
\* compliant one is the one approved
run_mvp_demo_loop_NoBreak(rules, proposals) ==
    LET result == [i \in 1..Len(proposals) |->
                     validate_assignment(rules, proposals[i].pilot_data,
                                         proposals[i].flight)]
        raises == {i \in 1..Len(proposals) : result[i].kind = "raise"}
        last == IF raises = {} THEN Len(proposals) ELSE Min(raises)
        raised == raises # {}
        explained == IF raised THEN last - 1 ELSE last
        compliant == {i \in 1..explained : result[i].compliant}
    IN  [validated |-> [i \in 1..last |-> proposals[i]],
         explanation |-> [i \in 1..explained |->
                            explain(proposals[i].action, result[i])],
         approved |-> IF compliant = {} \/ raised THEN 0
                      ELSE CHOOSE i \in compliant : \A j \in compliant : j <= i,
         exc |-> IF raised THEN result[last].exc ELSE "none"]

\* the loop going over the proposals a second time when it approved none
run_mvp_demo_loop_Retry(rules, proposals) ==
    LET result == [i \in 1..Len(proposals) |->
                     validate_assignment(rules, proposals[i].pilot_data,
                                         proposals[i].flight)]
        stops == {i \in 1..Len(proposals) :
                    result[i].kind = "raise" \/ result[i].compliant}
        last == IF stops = {} THEN Len(proposals) ELSE Min(stops)
        raised == stops # {} /\ result[last].kind = "raise"
        explained == IF raised THEN last - 1 ELSE last
        pass == [i \in 1..last |-> proposals[i]]
    IN  [validated |-> IF stops = {} THEN pass \o pass ELSE pass,
         explanation |-> [i \in 1..explained |->
                            explain(proposals[i].action, result[i])],
         approved |-> IF stops = {} \/ raised THEN 0 ELSE last,
         exc |-> IF raised THEN result[last].exc ELSE "none"]

\* mvp_demo lines 29-43: the proposals are validated in their order up to the
\* first compliant one, which is approved (break); an exception of the
\* validator ends the loop and the program. validated are the proposals passed
\* to validate_assignment, explanation what was printed for each that got a
\* verdict, approved the position of the approved proposal or 0.
run_mvp_demo_loop(rules, proposals) ==
    LET result == [i \in 1..Len(proposals) |->
                     validate_assignment(rules, proposals[i].pilot_data,
                                         proposals[i].flight)]
        stops == {i \in 1..Len(proposals) :
                    result[i].kind = "raise" \/ result[i].compliant}
        last == IF stops = {} THEN Len(proposals) ELSE Min(stops)
        raised == stops # {} /\ result[last].kind = "raise"
        explained == IF raised THEN last - 1 ELSE last
    IN  [validated |-> [i \in 1..last |-> proposals[i]],
         explanation |-> [i \in 1..explained |->
                            explain(proposals[i].action, result[i])],
         approved |-> IF stops = {} \/ raised THEN 0 ELSE last,
         exc |-> IF raised THEN result[last].exc ELSE "none"]

\* ------------------------------------------------------------------ inputs

MaxNights == 3

DailyValues == {40, 60, 75, 90}
WeeklyValues == {100, 330, 340}
NightValues == 0..MaxNights
RestValues == {240, 550, 560}
DurationValues == {-20, 0, 10, 20, 21}

PilotKeys == {"daily_flight_hours", "weekly_flight_hours",
              "consecutive_night_duties", "hours_since_last_rest"}

FullPilots == [daily_flight_hours : DailyValues,
               weekly_flight_hours : WeeklyValues,
               consecutive_night_duties : NightValues,
               hours_since_last_rest : RestValues]

\* pilot dicts: every field is present or not
PilotStates == { Restrict(p, S) : p \in FullPilots, S \in SUBSET PilotKeys }

\* flight dicts: duration_hours is present or not
Flights == {EmptyDict} \cup { [duration_hours |-> d] : d \in DurationValues }

ActionTexts == { <<>>,
                 <<"delay", "flight", "by", "3", "hours">>,
                 <<"delay", "by", "1.5", "hours">>,
                 <<"delay", "by", "two", "hours">>,
                 <<"delay_flight", "ai-203">>,
                 <<"cancel_flight", "ai-203">>,
                 <<"swap_aircraft", "ai-203">>,
                 <<"reassign_crew">>,
                 <<"ground_aircraft">> }

\* the pilots given to the agent: pilot_sample of system_2_agent's main
\* program, the two pilots of run_mvp_demo without and with the fields that
\* the night rule reads, and two rested pilots early and late in their day
AgentPilots ==
    { [consecutive_night_duties |-> 2, hours_since_last_rest |-> 240,
       daily_flight_hours |-> 20],
      [daily_flight_hours |-> 70, weekly_flight_hours |-> 200],
      [daily_flight_hours |-> 40, consecutive_night_duties |-> 1,
       hours_since_last_rest |-> 240, weekly_flight_hours |-> 100],
      [daily_flight_hours |-> 40, weekly_flight_hours |-> 100,
       consecutive_night_duties |-> 0, hours_since_last_rest |-> 200],
      [daily_flight_hours |-> 75, weekly_flight_hours |-> 100,
       consecutive_night_duties |-> 0, hours_since_last_rest |-> 200] }

\* disruption events: strings with the keywords they hold, and a value that
\* is no string (its .lower() raises AttributeError)
Events == { [str |-> TRUE, has |-> {"fog"}],
            [str |-> TRUE, has |-> {"engine"}],
            [str |-> TRUE, has |-> {"fatigue"}],
            [str |-> FALSE, has |-> {}] }

MaxProposals == 3

\* what the remote generator may answer: a failure (the call or the JSON
\* parsing raises), a JSON array whose items are no objects, or an array of up
\* to MaxProposals proposals
GeneratedProposals ==
    { [action |-> <<"delay", "flight", "by", "2", "hours">>, cost |-> 500],
      [action |-> <<"delay", "flight", "by", "3", "hours">>, cost |-> 1200],
      [action |-> <<"swap", "aircraft">>, cost |-> 1200],
      [action |-> <<"cancel", "flight">>, cost |-> 5000] }

Responses ==
    { [kind |-> "error", proposals |-> <<>>],
      [kind |-> "not_objects", proposals |-> <<>>] }
    \cup { [kind |-> "list", proposals |-> ps] :
             ps \in UNION { [1..n -> GeneratedProposals] : n \in 0..MaxProposals } }

\* the proposals of run_mvp_demo (lines 24-27), each with the pilot it swaps in
\* and the flight, and two more of the same shape
DemoProposals ==
    { [action |-> "Swap in Pilot Verma",
       pilot_data |-> [daily_flight_hours |-> 70, consecutive_night_duties |-> 2,
                       hours_since_last_rest |-> 120, weekly_flight_hours |-> 200],
       flight |-> [duration_hours |-> 20]],
      [action |-> "Swap in Pilot Kumar",
       pilot_data |-> [daily_flight_hours |-> 40, consecutive_night_duties |-> 1,
                       hours_since_last_rest |-> 240, weekly_flight_hours |-> 100],
       flight |-> [duration_hours |-> 20]],
      [action |-> "Swap in Pilot Rao",
       pilot_data |-> [daily_flight_hours |-> 60, consecutive_night_duties |-> 0,
                       hours_since_last_rest |-> 560, weekly_flight_hours |-> 340],
       flight |-> [duration_hours |-> 20]],
      [action |-> "Swap in Pilot Iyer",
       pilot_data |-> [daily_flight_hours |-> 20, consecutive_night_duties |-> 0,
                       hours_since_last_rest |-> 560, weekly_flight_hours |-> 50],
       flight |-> [duration_hours |-> 10]] }

\* proposal dicts given to generate_explainability_memo: a compliant and a
\* rejected proposal as reason_and_act labels them, and the same dicts lacking
\* the verdict, the reason, or every key
MemoKeys == {"action", "cost", "reasoning", "compliant", "validation_reason"}

MemoProposal(action, cost, compliant, validation_reason) ==
    [k \in MemoKeys |->
        CASE k = "action" -> action
          [] k = "cost" -> cost
          [] k = "reasoning" -> "Maintains schedule while addressing the issue"
          [] k = "compliant" -> compliant
          [] k = "validation_reason" -> validation_reason]

MemoProposals ==
    { Restrict(m, S) :
        m \in { MemoProposal(<<"swap", "aircraft">>, 1200, TRUE,
                             <<CompliantReason, <<>>>>),
                MemoProposal(<<"delay", "flight", "by", "2", "hours">>, 500, FALSE,
                             <<DailyReason, <<80>>>>) },
        S \in { MemoKeys, MemoKeys \ {"compliant"},
                MemoKeys \ {"validation_reason"}, {} } }

MemoLists == UNION { [1..n -> MemoProposals] : n \in 0..MaxProposals }

\* the actions of a plan: one of each type, delays of a few minutes, of hours
\* and without their minutes, crew reassignments naming a pilot of the
\* context, a pilot that is unknown and no pilot, and an action without its
\* type
PlanActions ==
    { [action_type |-> "CANCEL_FLIGHT", flight_id |-> "ai-203"],
      [action_type |-> "DELAY_FLIGHT", flight_id |-> "ai-203", delay_minutes |-> 5],
      [action_type |-> "DELAY_FLIGHT", flight_id |-> "ai-203", delay_minutes |-> 200],
      [action_type |-> "DELAY_FLIGHT", flight_id |-> "ai-203"],
      [action_type |-> "SWAP_AIRCRAFT", flight_id |-> "ai-203"],
      [action_type |-> "GROUND_AIRCRAFT"],
      [action_type |-> "REASSIGN_CREW", flight_id |-> "ai-203", pilot_id |-> "PLT001"],
      [action_type |-> "REASSIGN_CREW", flight_id |-> "ai-203", pilot_id |-> "PLT002"],
      [action_type |-> "REASSIGN_CREW", flight_id |-> "ai-203", pilot_id |-> "PLT404"],
      [action_type |-> "REASSIGN_CREW", flight_id |-> "ai-203"],
      [flight_id |-> "ai-203"] }

Plans == UNION { [1..n -> PlanActions] : n \in 0..MaxProposals }

\* the pilots of the operational context by pilot_id, with the duty fields
\* their records hold (crew_mcp gives consecutive_night_duties only)
PilotsMaps ==
    { [id \in {"PLT001", "PLT002"} |->
         IF id = "PLT001" THEN [consecutive_night_duties |-> 0]
         ELSE [consecutive_night_duties |-> 2]],
      [id \in {"PLT001", "PLT002"} |->
         IF id = "PLT001"
         THEN [daily_flight_hours |-> 70, weekly_flight_hours |-> 200,
               consecutive_night_duties |-> 0, hours_since_last_rest |-> 560]
         ELSE [consecutive_night_duties |-> 1]],
      [id \in {} |-> EmptyDict] }

\* the calls that run at the same time on the validator of brain_api
MaxThreads == 2

\* what the concurrent calls validate: pilots that the daily, the night and
\* the weekly rule reject or pass, depending on the flight
ThreadPilots ==
    { [daily_flight_hours |-> 60, weekly_flight_hours |-> 340,
       consecutive_night_duties |-> 0, hours_since_last_rest |-> 560],
      [daily_flight_hours |-> 60, weekly_flight_hours |-> 100,
       consecutive_night_duties |-> 2, hours_since_last_rest |-> 240],
      [daily_flight_hours |-> 40, weekly_flight_hours |-> 340,
       consecutive_night_duties |-> 0, hours_since_last_rest |-> 560] }

ThreadFlights == { [duration_hours |-> 10], [duration_hours |-> 21] }

DemoLists == UNION { [1..n -> DemoProposals] : n \in 0..MaxProposals }

\* ----------------------------------------------------------------- actions

NoCall == [op |-> "none"]

Programs == {"tests", "brain_api", "system_2_agent", "mvp_demo", "reg_mcp"}

Init ==
    /\ program \in Programs
    /\ config \in Configs
    /\ validator = NotBuilt
    /\ fdtl_validator = NotBuilt
    /\ agent = NoAgent
    /\ call = NoCall

\* FDTLValidator(config_path=...), as the tests and run_mvp_demo do
Construct ==
    /\ program = "tests"
    /\ validator.state = "none"
    /\ call.op = "none"
    /\ validator' = FDTLValidator_init(config)
    /\ UNCHANGED <<program, config, fdtl_validator, agent, call>>

\* brain_api lines 15-21: any exception of the constructor leaves None
ModuleInit ==
    /\ program = "brain_api"
    /\ fdtl_validator.state = "none"
    /\ call.op = "none"
    /\ fdtl_validator' = FDTLValidator_init(config)
    /\ UNCHANGED <<program, config, validator, agent, call>>

\* validator.validate_assignment(pilot, flight) on a validator that was built
ValidateAssignment ==
    /\ validator.state = "built"
    /\ call.op = "none"
    /\ \E pilot \in PilotStates, flight \in Flights :
         call' = [op |-> "validate_assignment", pilot |-> pilot, flight |-> flight,
                  out |-> validate_assignment(validator.rules, pilot, flight)]
    /\ UNCHANGED <<program, config, validator, fdtl_validator, agent>>

\* _validate_with_fdtl(action_data, pilot_data) once the module is imported
ValidateWithFdtl ==
    /\ fdtl_validator.state # "none"
    /\ call.op = "none"
    /\ \E action \in ActionTexts, pilot \in PilotStates :
         call' = [op |-> "_validate_with_fdtl", action |-> action, pilot |-> pilot,
                  out |-> validate_with_fdtl(fdtl_validator, action, pilot)]
    /\ UNCHANGED <<program, config, validator, fdtl_validator, agent>>

\* system_2_agent lines 18-34: the two verifiers are built from the same file;
\* an exception of FDTLValidator() leaves no agent; the OpenAI client is
\* available when the key is set and the client could be built
ConstructAgent ==
    /\ program = "system_2_agent"
    /\ agent.state = "none"
    /\ call.op = "none"
    /\ LET v == FDTLValidator_init(config)
       IN  IF v.state # "built"
           THEN agent' = [NoAgent EXCEPT !.state = "failed", !.exc = v.exc]
           ELSE \E available \in BOOLEAN :
                  agent' = [state |-> "built", verifier |-> v.rules,
                            local_verifier |-> v.rules,
                            openai_available |-> available, exc |-> "none"]
    /\ UNCHANGED <<program, config, validator, fdtl_validator, call>>

\* a reason_and_act call: the stage it is in, the stages it entered, why it
\* entered each (cause), the proposals it evaluated in the stage, and what it
\* returns (out) or raises. candidates are the dicts of the stage as its
\* generator made them, evaluated the same dicts when the stage ends; calls
\* are the positions of the candidates passed to validate_assignment, in the
\* order of the calls.
AgentCall(event, pilot, stage, path, cause, evaluated, out, exc) ==
    [op |-> "reason_and_act", event |-> event, pilot |-> pilot, stage |-> stage,
     path |-> path, cause |-> cause, evaluated |-> evaluated, out |-> out,
     exc |-> exc, candidates |-> <<>>, calls |-> <<>>]

\* the hand-over to the next stage: the locals of the stage left are gone
Enter(c, stage, cause) ==
    AgentCall(c.event, c.pilot, stage, Append(c.path, stage),
              Append(c.cause, cause), <<>>, <<>>, "none")

\* system_2_agent lines 36-45
ReasonAndAct ==
    /\ agent.state = "built"
    /\ call.op = "none"
    /\ \E event \in Events, pilot \in AgentPilots :
         LET stage == IF agent.openai_available THEN "openai" ELSE "local"
             cause == IF agent.openai_available THEN "available" ELSE "unavailable"
         IN  call' = AgentCall(event, pilot, stage, <<stage>>, <<cause>>,
                               <<>>, <<>>, "none")
    /\ UNCHANGED <<program, config, validator, fdtl_validator, agent>>

\* system_2_agent lines 47-109
ReasonWithOpenAI ==
    /\ call.op = "reason_and_act"
    /\ call.stage = "openai"
    /\ \E response \in Responses :
         IF response.kind = "error"
         THEN call' = Enter(call, "local", "generator_failed")
         ELSE IF response.kind = "not_objects"
         THEN call' = [call EXCEPT !.stage = "raised", !.exc = "AttributeError"]
         ELSE LET proposals == response.proposals
                  checked == [i \in 1..Len(proposals) |->
                                Verified(agent.verifier, proposals[i], call.pilot)]
                  evaluated == [i \in 1..Len(proposals) |-> checked[i].prop]
                  raising == {i \in 1..Len(proposals) : checked[i].raised}
              IN  IF raising # {}
                  THEN call' = [call EXCEPT !.stage = "raised", !.exc = "KeyError",
                                            !.candidates = proposals,
                                            !.calls = [i \in 1..Min(raising) |-> i]]
                  ELSE IF valid_options(evaluated) # <<>>
                  THEN call' = [call EXCEPT !.stage = "returned",
                                            !.evaluated = evaluated,
                                            !.out = valid_options(evaluated),
                                            !.candidates = proposals,
                                            !.calls = [i \in 1..Len(proposals) |-> i]]
                  ELSE call' = Enter(call, "local",
                                     IF proposals = <<>> THEN "empty"
                                     ELSE "none_compliant")
    /\ UNCHANGED <<program, config, validator, fdtl_validator, agent>>

\* system_2_agent lines 111-118 with local_llm lines 65-106: generate_proposals
\* raises on an event that is no string, else it returns three proposals with
\* their verdicts, compliant or not
ReasonWithLocalLLM ==
    /\ call.op = "reason_and_act"
    /\ call.stage = "local"
    /\ IF ~call.event.str
       THEN call' = Enter(call, "fallback", "generator_failed")
       ELSE LET templates == action_templates[extract_disruption_type(call.event)]
            IN  \E s \in Samples :
                \E p1 \in LocalProposals(agent.local_verifier, templates[s[1]], call.pilot),
                   p2 \in LocalProposals(agent.local_verifier, templates[s[2]], call.pilot),
                   p3 \in LocalProposals(agent.local_verifier, templates[s[3]], call.pilot) :
                  LET proposals == <<p1, p2, p3>>
                  IN  IF proposals # <<>>
                      THEN call' = [call EXCEPT !.stage = "returned",
                                                !.evaluated = proposals,
                                                !.out = proposals,
                                                !.candidates =
                                                   [i \in 1..3 |->
                                                      [action |-> proposals[i].action,
                                                       cost |-> proposals[i].cost]],
                                                !.calls = <<1, 2, 3>>]
                      ELSE call' = Enter(call, "fallback", "empty")
    /\ UNCHANGED <<program, config, validator, fdtl_validator, agent>>

\* system_2_agent lines 120-137
FallbackProposals ==
    /\ call.op = "reason_and_act"
    /\ call.stage = "fallback"
    /\ call' = [call EXCEPT !.stage = "returned", !.out = fallback_proposals]
    /\ UNCHANGED <<program, config, validator, fdtl_validator, agent>>

\* generate_explainability_memo(proposals, reason) on the agent
GenerateExplainabilityMemo ==
    /\ agent.state = "built"
    /\ call.op = "none"
    /\ \E proposals \in MemoLists :
         call' = [op |-> "generate_explainability_memo", proposals |-> proposals,
                  out |-> generate_explainability_memo(proposals)]
    /\ UNCHANGED <<program, config, validator, fdtl_validator, agent>>

\* steps 5 to 7 of generate_recovery_proposals on the plan the generator wrote
\* and the pilots of the operational context: out is the state the
\* verification ends in, returned the list the handler returns
VerifyPlan ==
    /\ fdtl_validator.state # "none"
    /\ call.op = "none"
    /\ \E actions \in Plans, pilots_map \in PilotsMaps :
         LET out == verify_plan(fdtl_validator, pilots_map, actions)
         IN  call' = [op |-> "verify_plan", actions |-> actions,
                      pilots_map |-> pilots_map, out |-> out,
                      returned |-> recovery_proposals(out, actions)]
    /\ UNCHANGED <<program, config, validator, fdtl_validator, agent>>

\* mvp_demo lines 14-43: run_mvp_demo builds its validator (a local) and runs
\* the loop; an exception of the constructor ends the program before the loop
RunMvpDemo ==
    /\ program = "mvp_demo"
    /\ call.op = "none"
    /\ \E proposals \in DemoLists :
         LET v == FDTLValidator_init(config)
             none == [validated |-> <<>>, explanation |-> <<>>, approved |-> 0,
                      exc |-> v.exc]
         IN  call' = [op |-> "run_mvp_demo", proposals |-> proposals,
                      validator |-> v,
                      out |-> IF v.state = "built"
                              THEN run_mvp_demo_loop(v.rules, proposals)
                              ELSE none]
    /\ UNCHANGED <<program, config, validator, fdtl_validator, agent>>

\* the tool check_rest_compliance of the regulatory server
CheckRestCompliance ==
    /\ program = "reg_mcp"
    /\ call.op = "none"
    /\ \E consecutive_nights \in NightValues, rest_hours \in RestValues :
         call' = [op |-> "check_rest_compliance",
                  consecutive_nights |-> consecutive_nights,
                  rest_hours |-> rest_hours,
                  out |-> check_rest_compliance(consecutive_nights, rest_hours)]
    /\ UNCHANGED <<program, config, validator, fdtl_validator, agent>>

\* brain_api lines 15-21 make one validator for the module: requests served
\* at the same time call validate_assignment on it, each with its own pilot
\* and flight
StartValidations ==
    /\ fdtl_validator.state = "built"
    /\ call.op = "none"
    /\ \E pilots \in [1..MaxThreads -> ThreadPilots],
          flights \in [1..MaxThreads -> ThreadFlights] :
         call' = [op |-> "validations",
                  threads |-> [t \in 1..MaxThreads |->
                                 ThreadAt(pilots[t], flights[t])]]
    /\ UNCHANGED <<program, config, validator, fdtl_validator, agent>>

\* the scheduler lets one of the running calls execute its next statements
ValidationStep ==
    /\ call.op = "validations"
    /\ \E t \in 1..MaxThreads :
         /\ call.threads[t].pc # "done"
         /\ LET beside == \E u \in 1..MaxThreads \ {t} :
                            call.threads[u].pc \notin {"start", "done"}
                stepped == validate_step(fdtl_validator.rules, call.threads, t)
            IN  call' = [call EXCEPT !.threads =
                           [stepped EXCEPT ![t].overlapped = @ \/ beside]]
    /\ UNCHANGED <<program, config, validator, fdtl_validator, agent>>

\* the caller takes the result of a finished call
Done ==
    /\ call.op # "none"
    /\ call.op = "reason_and_act" => call.stage \in {"returned", "raised"}
    /\ call.op = "validations"
         => \A t \in 1..MaxThreads : call.threads[t].pc = "done"
    /\ call' = NoCall
    /\ UNCHANGED <<program, config, validator, fdtl_validator, agent>>

Next ==
    \/ Construct
    \/ ModuleInit
    \/ ValidateAssignment
    \/ ValidateWithFdtl
    \/ ConstructAgent
    \/ ReasonAndAct
    \/ ReasonWithOpenAI
    \/ ReasonWithLocalLLM
    \/ FallbackProposals
    \/ GenerateExplainabilityMemo
    \/ VerifyPlan
    \/ RunMvpDemo
    \/ CheckRestCompliance
    \/ StartValidations
    \/ ValidationStep
    \/ Done

Spec == Init /\ [][Next]_vars

\* ------------------------------------------------------------------ claims

\* The conditions of the rules as the specification words them, on the fields
\* a duty state and a flight carry.
Has(d, k) == k \in DOMAIN d

CompleteInput(pilot, flight) ==
    PilotKeys \subseteq DOMAIN pilot /\ Has(flight, "duration_hours")

DailyOver(rules, pilot, flight) ==
    /\ Has(pilot, "daily_flight_hours") /\ Has(flight, "duration_hours")
    /\ pilot.daily_flight_hours + flight.duration_hours > rules.max_daily_flight_time

WeeklyOver(rules, pilot, flight) ==
    /\ Has(pilot, "weekly_flight_hours") /\ Has(flight, "duration_hours")
    /\ pilot.weekly_flight_hours + flight.duration_hours
         > rules.weekly_flight_time_limit

NightRestMissing(rules, pilot) ==
    /\ Has(pilot, "consecutive_night_duties") /\ Has(pilot, "hours_since_last_rest")
    /\ pilot.consecutive_night_duties >= rules.max_consecutive_night_duties
    /\ pilot.hours_since_last_rest < rules.mandatory_night_rest_hours

\* a validate_assignment call on a validator whose rule set has all four limits
ValidatedUnderCompleteRules ==
    call.op = "validate_assignment" /\ RulesComplete(validator.rules)

Rejected(out) == out.kind = "return" /\ out.compliant = FALSE

\* C1: whenever daily_flight_hours + duration_hours exceeds the configured
\* daily cap, validate_assignment returns (False, the daily reason citing the
\* cap), whatever the weekly hours, the night-duty count and the rest hours.
C1_DailyCapRejects ==
    (/\ call.op = "validate_assignment"
     /\ Has(validator.rules, "max_daily_flight_time")
     /\ DailyOver(validator.rules, call.pilot, call.flight))
    => /\ Rejected(call.out)
       /\ call.out.msg = DailyReason
       /\ call.out.args = <<validator.rules.max_daily_flight_time>>

\* the daily cap is exceeded while the night rule is violated too
C1_Witness ==
    /\ ValidatedUnderCompleteRules
    /\ DailyOver(validator.rules, call.pilot, call.flight)
    /\ NightRestMissing(validator.rules, call.pilot)
    /\ call.out.msg = DailyReason

\* C2: whenever weekly_flight_hours + duration_hours exceeds the configured
\* weekly limit, validate_assignment returns compliant = False, whatever the
\* other duty fields; when neither the daily nor the night rule is violated the
\* reason is the weekly reason citing the limit.
C2_WeeklyCapRejects ==
    (/\ ValidatedUnderCompleteRules
     /\ WeeklyOver(validator.rules, call.pilot, call.flight))
    => /\ Rejected(call.out)
       /\ (/\ CompleteInput(call.pilot, call.flight)
           /\ ~DailyOver(validator.rules, call.pilot, call.flight)
           /\ ~NightRestMissing(validator.rules, call.pilot))
          => /\ call.out.msg = WeeklyReason
             /\ call.out.args = <<validator.rules.weekly_flight_time_limit>>

\* the flight takes the week over the limit though the week so far is within it
C2_Witness ==
    /\ ValidatedUnderCompleteRules
    /\ CompleteInput(call.pilot, call.flight)
    /\ WeeklyOver(validator.rules, call.pilot, call.flight)
    /\ call.pilot.weekly_flight_hours <= validator.rules.weekly_flight_time_limit
    /\ call.out.msg = WeeklyReason

\* C3: whenever consecutive_night_duties >= max_consecutive_night_duties and
\* hours_since_last_rest < mandatory_night_rest_hours, validate_assignment
\* returns compliant = False regardless of the duration and of the daily and
\* weekly hours; when the daily cap is not exceeded the reason names the night
\* duty count and the required rest hours.
C3_NightRestRejects ==
    (/\ ValidatedUnderCompleteRules
     /\ NightRestMissing(validator.rules, call.pilot))
    => /\ Rejected(call.out)
       /\ (/\ CompleteInput(call.pilot, call.flight)
           /\ ~DailyOver(validator.rules, call.pilot, call.flight))
          => /\ call.out.msg = NightReason
             /\ call.out.args = <<call.pilot.consecutive_night_duties,
                                  validator.rules.mandatory_night_rest_hours>>

\* the night count is exactly the maximum and the rest is short
C3_Witness ==
    /\ ValidatedUnderCompleteRules
    /\ NightRestMissing(validator.rules, call.pilot)
    /\ call.pilot.consecutive_night_duties
         = validator.rules.max_consecutive_night_duties
    /\ call.out.msg = NightReason

\* C4: when none of the three conditions holds, validate_assignment returns
\* (True, "Compliant"): a total exactly at the daily or weekly cap, a rest
\* exactly the required rest and a night count below the maximum are compliant;
\* and the reason is "Compliant" exactly when compliant is True.
C4_NoFalseRejection ==
    ValidatedUnderCompleteRules
    => /\ (/\ CompleteInput(call.pilot, call.flight)
           /\ ~DailyOver(validator.rules, call.pilot, call.flight)
           /\ ~WeeklyOver(validator.rules, call.pilot, call.flight)
           /\ ~NightRestMissing(validator.rules, call.pilot))
          => /\ call.out.kind = "return"
             /\ call.out.compliant = TRUE
             /\ call.out.msg = CompliantReason
       /\ call.out.kind = "return"
          => (call.out.msg = CompliantReason <=> call.out.compliant = TRUE)

\* a compliant flight that brings the daily total exactly to the cap, for a
\* pilot at the night maximum whose rest is exactly the required rest
C4_Witness ==
    /\ ValidatedUnderCompleteRules
    /\ CompleteInput(call.pilot, call.flight)
    /\ call.pilot.daily_flight_hours + call.flight.duration_hours
         = validator.rules.max_daily_flight_time
    /\ call.pilot.consecutive_night_duties
         >= validator.rules.max_consecutive_night_duties
    /\ call.pilot.hours_since_last_rest
         = validator.rules.mandatory_night_rest_hours
    /\ call.out.compliant = TRUE

\* C5: with more than one rule violated the reason is that of the first
\* violated rule in the order daily, night, weekly: a daily violation gives the
\* daily reason, a night violation without a daily one the night reason, and
\* the weekly reason is given only when neither earlier rule is violated.
C5_CheckOrder ==
    (ValidatedUnderCompleteRules /\ CompleteInput(call.pilot, call.flight))
    => /\ DailyOver(validator.rules, call.pilot, call.flight)
          => call.out.msg = DailyReason
       /\ (/\ ~DailyOver(validator.rules, call.pilot, call.flight)
           /\ NightRestMissing(validator.rules, call.pilot))
          => call.out.msg = NightReason
       /\ call.out.msg = WeeklyReason
          => /\ ~DailyOver(validator.rules, call.pilot, call.flight)
             /\ ~NightRestMissing(validator.rules, call.pilot)
             /\ WeeklyOver(validator.rules, call.pilot, call.flight)

\* the night rule and the weekly cap are both violated, the daily cap is not
C5_Witness ==
    /\ ValidatedUnderCompleteRules
    /\ CompleteInput(call.pilot, call.flight)
    /\ ~DailyOver(validator.rules, call.pilot, call.flight)
    /\ NightRestMissing(validator.rules, call.pilot)
    /\ WeeklyOver(validator.rules, call.pilot, call.flight)
    /\ call.out.msg = NightReason

\* reason_and_act has returned, on an agent whose rule sets have all four limits
Returned ==
    /\ call.op = "reason_and_act" /\ call.stage = "returned"
    /\ RulesComplete(agent.verifier) /\ RulesComplete(agent.local_verifier)

\* C6: every proposal that reason_and_act returns has compliant = True,
\* whichever of the OpenAI, local-generator and fallback paths produced it.
C6_OnlyCompliantReturned ==
    Returned => \A i \in 1..Len(call.out) : call.out[i].compliant = TRUE

\* C7: every proposal in the output of reason_and_act that is flagged
\* compliant = True was passed to the validator with the caller's pilot data;
\* none is labelled compliant without having been validated.
C7_CompliantMeansValidated ==
    Returned => \A i \in 1..Len(call.out) :
                   call.out[i].compliant = TRUE => call.out[i].checked = <<call.pilot>>

\* C8: while the module's validator is uninitialised (the rule set failed to
\* load), _validate_with_fdtl never returns compliant = True.
C8_FailClosedWithoutRules ==
    (call.op = "_validate_with_fdtl" /\ fdtl_validator.state = "failed")
    => ~(call.out.kind = "return" /\ call.out.compliant = TRUE)

\* C9: a configuration whose 'dgca_fdtl' section lacks one of the four limits
\* fails at construction: no validator holds a partial rule set, and no verdict
\* of validate_assignment is computed from an incomplete rule set.
C9_NoPartialRuleSet ==
    /\ validator.state = "built" => RulesComplete(validator.rules)
    /\ (call.op = "validate_assignment" /\ call.out.kind = "return")
       => RulesComplete(validator.rules)

\* C10: constructing FDTLValidator raises FileNotFoundError when the file does
\* not exist and KeyError when the configuration mapping has no 'dgca_fdtl'
\* section; in both cases no validator and no rule set are produced.
C10_ConstructionRaises ==
    validator.state # "none"
    => /\ config.kind = "absent"
          => /\ validator.state = "failed"
             /\ validator.exc = "FileNotFoundError"
             /\ validator.rules = EmptyDict
       /\ (config.kind = "document" /\ config.mapping /\ ~config.section)
          => /\ validator.state = "failed"
             /\ validator.exc = "KeyError"
             /\ validator.rules = EmptyDict

\* the constructor was called on a mapping without the section and raised
C10_Witness ==
    /\ config.kind = "document" /\ config.mapping /\ ~config.section
    /\ validator.state = "failed"
    /\ validator.exc = "KeyError"

\* a duty field or the duration is missing from the input of the call
MissingField == ~CompleteInput(call.pilot, call.flight)

\* C11: a validate_assignment call whose pilot duty state lacks one of the
\* four duty fields, or whose flight lacks duration_hours, never returns
\* compliant = True: the missing field is an input error, not a zero.
C11_MissingFieldsNotCompliant ==
    (ValidatedUnderCompleteRules /\ MissingField)
    => ~(call.out.kind = "return" /\ call.out.compliant = TRUE)

\* C12: a validate_assignment call with duration_hours < 0 never returns
\* compliant = True; in particular a pilot whose daily hours already exceed
\* the cap is not made compliant by a negative duration.
C12_NegativeDurationRejected ==
    (/\ ValidatedUnderCompleteRules
     /\ CompleteInput(call.pilot, call.flight)
     /\ call.flight.duration_hours < 0
     /\ call.pilot.daily_flight_hours > validator.rules.max_daily_flight_time)
    => ~(call.out.kind = "return" /\ call.out.compliant = TRUE)

\* reason_and_act returned from the stage that evaluates the candidates of the
\* remote generator, the one stage that selects among given candidates
Selected == Returned /\ call.path = <<"openai">>

\* the pilot data of the call carries the four duty fields
CompleteDuty == PilotKeys \subseteq DOMAIN call.pilot

CompliantAt(evaluated) == {i \in 1..Len(evaluated) : evaluated[i].compliant}

\* C13: whenever at least one candidate is compliant, the chosen proposal (the
\* first proposal of the result) is a compliant candidate whose cost is at most
\* the cost of every compliant candidate, and it is the earliest candidate
\* among the compliant ones of that cost.
C13_MinCostChosen ==
    (Selected /\ CompleteDuty /\ CompliantAt(call.evaluated) # {})
    => /\ call.out # <<>>
       /\ call.out[1].compliant
       /\ \A i \in CompliantAt(call.evaluated) :
            call.out[1].cost <= call.evaluated[i].cost
       /\ call.out[1] = call.evaluated[
              Min({i \in CompliantAt(call.evaluated) :
                     call.evaluated[i].cost = call.out[1].cost})]

\* the list without its k-th element
Remove(seq, k) == [i \in 1..(Len(seq) - 1) |-> IF i < k THEN seq[i] ELSE seq[i + 1]]

\* what lines 82-109 select from a list of candidates
SelectionOf(rules, proposals, pilot) ==
    valid_options([i \in 1..Len(proposals) |->
                     Verified(rules, proposals[i], pilot).prop])

\* C14: for a candidate list with at least one compliant candidate, the
\* selection is the same with and without a non-compliant candidate, wherever
\* it stands and whatever it costs: what reason_and_act selected equals the
\* selection from the list without any one of its rejected candidates, and the
\* proposal run_mvp_demo approved is the one it approves without any one of
\* the rejected proposals.
C14_SelectorMonotone ==
    /\ Selected
       => \A k \in 1..Len(call.evaluated) :
            ~call.evaluated[k].compliant
            => SelectionOf(agent.verifier, Remove(call.evaluated, k), call.pilot)
                 = call.out
    /\ (call.op = "run_mvp_demo" /\ call.out.approved # 0)
       => \A k \in 1..Len(call.proposals) :
            Rejected(validate_assignment(call.validator.rules,
                                         call.proposals[k].pilot_data,
                                         call.proposals[k].flight))
            => LET without == Remove(call.proposals, k)
                   r == run_mvp_demo_loop(call.validator.rules, without)
               IN  /\ r.approved # 0
                   /\ without[r.approved] = call.proposals[call.out.approved]

\* the selection returned a compliant candidate while a rejected candidate
\* was cheaper than every compliant one
C14_Witness ==
    /\ Selected
    /\ \E k \in 1..Len(call.evaluated) :
         /\ ~call.evaluated[k].compliant
         /\ \A i \in 1..Len(call.out) : call.evaluated[k].cost < call.out[i].cost

\* the candidates of the generator were evaluated and all of them rejected
NoneCompliant ==
    /\ call.op = "reason_and_act"
    /\ \E i \in 1..Len(call.cause) : call.cause[i] = "none_compliant"

\* C15: when every candidate is non-compliant the selection ends without a
\* winner: reason_and_act returns no proposal, neither a rejected one nor a
\* substitute, and does not raise.
C15_NoWinnerWhenNoneCompliant ==
    (NoneCompliant /\ RulesComplete(agent.verifier) /\ CompleteDuty
     /\ call.stage \in {"returned", "raised"})
    => call.stage = "returned" /\ call.out = <<>>

IsCrewAction(action) ==
    "action_type" \in DOMAIN action /\ action.action_type = "REASSIGN_CREW"

ScenarioCandidates ==
    << [action |-> <<"delay", "flight", "by", "2", "hours">>, cost |-> 500],
       [action |-> <<"swap", "aircraft">>, cost |-> 1200],
       [action |-> <<"cancel", "flight">>, cost |-> 5000] >>

ScenarioDuty(daily) ==
    [daily_flight_hours |-> daily, weekly_flight_hours |-> 100,
     consecutive_night_duties |-> 0, hours_since_last_rest |-> 200]

\* the scenario was run: rules {8, 35, 2, 56}, the three candidates evaluated
\* with the duty state of the scenario, and a result returned
InScenario ==
    /\ Selected
    /\ agent.verifier = TestRules
    /\ call.pilot \in {ScenarioDuty(40), ScenarioDuty(75)}
    /\ Len(call.evaluated) = 3
    /\ \A i \in 1..3 : /\ call.evaluated[i].action = ScenarioCandidates[i].action
                       /\ call.evaluated[i].cost = ScenarioCandidates[i].cost

\* C17: with rules {8, 35, 2, 56} and the candidates [DELAY 2h cost 500,
\* SWAP_AIRCRAFT cost 1200, CANCEL cost 5000], the winner is DELAY for the
\* duty state {daily 4, weekly 10, nights 0, rest 20}, and for {daily 7.5, ...}
\* DELAY is rejected, SWAP_AIRCRAFT and CANCEL are compliant and the winner is
\* SWAP_AIRCRAFT.
C17_EndToEndScenario ==
    InScenario
    => /\ call.pilot = ScenarioDuty(40)
          => call.out[1].action = ScenarioCandidates[1].action
       /\ call.pilot = ScenarioDuty(75)
          => /\ ~call.evaluated[1].compliant
             /\ call.evaluated[2].compliant
             /\ call.evaluated[3].compliant
             /\ call.out[1].action = ScenarioCandidates[2].action

\* reason_and_act returned the proposals of the local generator
ReturnedLocal == Returned /\ call.path[Len(call.path)] = "local"

\* the run whose candidates are the actions of the proposals returned, each
\* with a cost and a verdict generate_proposals can give it
SameCandidatesRun(rules, out, pilot_data) ==
    [i \in 1..Len(out) |->
       CHOOSE p \in { LET v == validate_proposal(rules, out[i].action, pilot_data)
                      IN  Proposal(out[i].action, cost, v[1], v[2], <<pilot_data>>) :
                        cost \in { estimate_cost_range(out[i].action)[1],
                                   estimate_cost_range(out[i].action)[2] } } : TRUE]

\* C18: two runs on the same disruption, pilot duty state, candidate list and
\* rules give the same proposals in the same order with the same verdicts,
\* reasons and costs: the outcome of a run is the outcome of any other run on
\* the same candidates.
C18_Determinism ==
    (ReturnedLocal /\ CompleteDuty)
    => call.out = SameCandidatesRun(agent.local_verifier, call.out, call.pilot)

\* C19: the outcome of a selection holds every candidate that was evaluated,
\* the rejected ones as well, each with its verdict, reason and cost.
C19_CompleteAuditTrail ==
    (Returned /\ CompleteDuty)
    => \A i \in 1..Len(call.evaluated) :
         \E j \in 1..Len(call.out) : call.out[j] = call.evaluated[i]

\* C20: every proposal the memo reports as Non-compliant has in the memo the
\* validation reason that disqualified it; every proposal is listed with its
\* action, status and cost; an empty list gives the 'no valid recovery plans'
\* message.
C20_MemoExplainsRejections ==
    call.op = "generate_explainability_memo"
    => /\ call.proposals = <<>> <=> call.out.text = NoPlans
       /\ Len(call.out.options) = Len(call.proposals)
       /\ \A i \in 1..Len(call.proposals) :
            LET proposal == call.proposals[i]
                option == call.out.options[i]
            IN  /\ option.action = Get(proposal, "action", "N/A")
                /\ option.cost = Get(proposal, "cost", "N/A")
                /\ option.status \in {"Compliant", "Non-compliant"}
                /\ (/\ option.status = "Non-compliant"
                    /\ "validation_reason" \in DOMAIN proposal
                    /\ proposal.validation_reason[1] # CompliantReason)
                   => option.violation = <<proposal.validation_reason>>


\* a handler run that returned its proposal
PlanReturned == call.op = "verify_plan" /\ call.returned # <<>>

\* the cost of the plan in USD, as the returned proposal carries it (in INR)
PlanCost == call.returned[1].savings \div 80

SingleCost(action) == calculate_plan_cost(<<action>>)

RECURSIVE SumOfCosts(_)
SumOfCosts(actions) ==
    IF actions = <<>> THEN 0
    ELSE SingleCost(Head(actions)) + SumOfCosts(Tail(actions))

Minutes(action) == Get(action, "delay_minutes", 0)

DictKeys(prop) == DOMAIN prop \ {"checked"}

\* the dict holds what it held when the generator supplied it
SameObject(supplied, now) ==
    /\ DictKeys(now) = DictKeys(supplied)
    /\ \A k \in DictKeys(supplied) : now[k] = supplied[k]

\* C22: validation and evaluation have no side effects: the rule set of every
\* validator equals the values loaded from the file at construction, and the
\* candidate dicts a generator supplied are, after their evaluation, what
\* they were when supplied.
C22_NoSideEffects ==
    /\ validator.state = "built" => validator.rules = FDTLValidator_init(config).rules
    /\ fdtl_validator.state = "built"
         => fdtl_validator.rules = FDTLValidator_init(config).rules
    /\ agent.state = "built"
         => /\ agent.verifier = FDTLValidator_init(config).rules
            /\ agent.local_verifier = FDTLValidator_init(config).rules
    /\ Selected
         => /\ Len(call.evaluated) = Len(call.candidates)
            /\ \A i \in 1..Len(call.candidates) :
                 SameObject(call.candidates[i], call.evaluated[i])

\* C23: validate_assignment calls running at the same time on the shared
\* validator do not interfere: whatever the interleaving of their statements,
\* each returns (or raises) what it would alone on its pilot and flight, and
\* the rule set stays the one loaded from the file.
C23_ConcurrentValidations ==
    call.op = "validations"
      => /\ fdtl_validator.rules = FDTLValidator_init(config).rules
         /\ \A t \in 1..MaxThreads :
              call.threads[t].pc = "done"
                => call.threads[t].out
                     = validate_assignment(fdtl_validator.rules,
                                           call.threads[t].pilot,
                                           call.threads[t].flight)

\* two calls ran interleaved, the first accepted its assignment and the
\* second rejected its own
C23_Witness ==
    /\ call.op = "validations"
    /\ \A t \in {1, 2} : call.threads[t].pc = "done" /\ call.threads[t].overlapped
    /\ call.threads[1].out.kind = "return" /\ call.threads[1].out.compliant
    /\ Rejected(call.threads[2].out)
    /\ call.threads[1].pilot # call.threads[2].pilot

\* a reason_and_act call that ended, by a return or by an exception
Ended == call.op = "reason_and_act" /\ call.stage \in {"returned", "raised"}

\* C24: a selection is one scan of its candidates: each candidate is passed
\* to the validator at most once, in the order of the list, so the validator
\* is called no more often than there are candidates. This holds of the loop
\* of run_mvp_demo and of the stage of reason_and_act that ended the call.
C24_SingleScan ==
    /\ call.op = "run_mvp_demo"
         => /\ Len(call.out.validated) <= Len(call.proposals)
            /\ \A i \in 1..Len(call.out.validated) :
                 call.out.validated[i] = call.proposals[i]
    /\ Ended
         => /\ Len(call.calls) <= Len(call.candidates)
            /\ \A i \in 1..Len(call.calls) : call.calls[i] = i

\* run_mvp_demo went through three proposals, validated each once and
\* approved none
C24_Witness ==
    /\ call.op = "run_mvp_demo"
    /\ Len(call.proposals) = 3
    /\ call.out.validated = call.proposals
    /\ call.out.approved = 0
    /\ call.out.exc = "none"

\* the place of a stage in the chain OpenAI, local generator, fallback
StageRank(stage) ==
    CASE stage = "openai" -> 1 [] stage = "local" -> 2 [] stage = "fallback" -> 3

\* C25: a reason_and_act call goes through its stages forward only (OpenAI,
\* local generator, fallback), entering each at most once and leaving a stage
\* for the next only on its failure or empty result, and it always ends by
\* returning a list that is not empty. Read on agents whose rule set is
\* complete.
C25_FallbackChain ==
    (call.op = "reason_and_act" /\ RulesComplete(agent.verifier))
      => /\ \A i, j \in 1..Len(call.path) :
              i < j => StageRank(call.path[i]) < StageRank(call.path[j])
         /\ \A i \in 2..Len(call.path) :
              call.cause[i] \in {"generator_failed", "none_compliant", "empty"}
         /\ call.stage # "raised"
         /\ call.stage = "returned" => call.out # <<>>

\* C26: the three validation paths (_validate_with_fdtl of brain_api, the
\* loop of _reason_with_openai, LocalLLM._validate_proposal) infer the same
\* duration_hours from an action text, and so give the same verdict and the
\* same reason for the same pilot. Read on what _validate_with_fdtl returned
\* for a complete pilot under a complete rule set, against the other two
\* paths on the same action and pilot.
C26_SamePathVerdicts ==
    (/\ call.op = "_validate_with_fdtl"
     /\ fdtl_validator.state = "built" /\ RulesComplete(fdtl_validator.rules)
     /\ PilotKeys \subseteq DOMAIN call.pilot)
      => LET openai == Verified(fdtl_validator.rules,
                                [action |-> call.action, cost |-> 0],
                                call.pilot).prop
             local == validate_proposal(fdtl_validator.rules, call.action,
                                        call.pilot)
         IN  /\ brain_duration_hours(call.action) = agent_duration_hours(call.action)
             /\ brain_duration_hours(call.action) = local_duration_hours(call.action)
             /\ call.out.compliant = openai.compliant
             /\ call.out.reason = openai.validation_reason
             /\ call.out.compliant = local[1]
             /\ call.out.reason = local[2]

\* what the validator of the run says of the i-th proposal
DemoVerdict(i) ==
    validate_assignment(call.validator.rules, call.proposals[i].pilot_data,
                        call.proposals[i].flight)

\* the explanations that call a plan optimal and compliant
SaidOptimal ==
    {i \in 1..Len(call.out.explanation) :
       call.out.explanation[i]
         = explain(call.proposals[i].action, Return(TRUE, CompliantReason, <<>>))}

\* C27: run_mvp_demo validates its proposals in their order, approves the
\* first compliant one and stops: every proposal before the approved one was
\* validated and rejected (and explained as rejected), none after it is
\* validated or explained, at most one proposal is approved, and none is when
\* no proposal is compliant.
C27_FirstCompliantApproved ==
    (call.op = "run_mvp_demo" /\ call.validator.state = "built")
      => LET out == call.out
         IN  /\ out.approved # 0
                  => /\ DemoVerdict(out.approved).kind = "return"
                     /\ DemoVerdict(out.approved).compliant
                     /\ \A i \in 1..(out.approved - 1) :
                          /\ Rejected(DemoVerdict(i))
                          /\ out.explanation[i]
                               = explain(call.proposals[i].action, DemoVerdict(i))
                     /\ Len(out.validated) = out.approved
                     /\ Len(out.explanation) = out.approved
                     /\ SaidOptimal = {out.approved}
             /\ \A i \in 1..Len(out.validated) :
                  out.validated[i] = call.proposals[i]
             /\ Cardinality(SaidOptimal) <= 1
             /\ (\A i \in 1..Len(call.proposals) : Rejected(DemoVerdict(i)))
                  => out.approved = 0 /\ SaidOptimal = {}
             /\ (out.approved = 0 /\ out.exc = "none")
                  => \A i \in 1..Len(call.proposals) : Rejected(DemoVerdict(i))

\* the second of three proposals was approved after the first was rejected,
\* and the third, compliant as well, was never validated
C27_Witness ==
    /\ call.op = "run_mvp_demo" /\ call.validator.state = "built"
    /\ Len(call.proposals) = 3
    /\ call.out.approved = 2
    /\ Rejected(DemoVerdict(1))
    /\ DemoVerdict(3).kind = "return" /\ DemoVerdict(3).compliant
    /\ Len(call.out.validated) = 2

\* the positions of the crew reassignments of the plan
CrewActions == {i \in 1..Len(call.actions) :
                  call.actions[i].action_type = "REASSIGN_CREW"}

NamedPilot(i) == Get(call.actions[i], "pilot_id", "None")

KnownPilot(i) == NamedPilot(i) \in DOMAIN call.pilots_map

\* the reassignment passes the FDTL validation with the data of its pilot
PassesFdtl(i) ==
    /\ fdtl_validator.state = "built"
    /\ LET flight == [duration_hours |->
                        brain_duration_hours(PlanActionText(call.actions[i]))]
           v == validate_assignment(fdtl_validator.rules,
                                    call.pilots_map[NamedPilot(i)], flight)
       IN  v.kind = "return" /\ v.compliant

C29_RestCheckAgreesWithValidator ==
    /\ call.op = "check_rest_compliance"
         => (~call.out.compliant
               <=> /\ NightDutiesReached(TestRules, call.consecutive_nights)
                   /\ RestTooShort(TestRules, call.rest_hours))
    /\ (/\ ValidatedUnderCompleteRules
        /\ validator.rules = TestRules
        /\ Has(call.pilot, "consecutive_night_duties")
        /\ Has(call.pilot, "hours_since_last_rest")
        /\ ~check_rest_compliance(call.pilot.consecutive_night_duties,
                                  call.pilot.hours_since_last_rest).compliant)
         => /\ Rejected(call.out)
            /\ call.out.msg \in {DailyReason, NightReason}

\* the rest check failed for two consecutive night duties and 55 h of rest
C29_Witness ==
    /\ call.op = "check_rest_compliance"
    /\ call.consecutive_nights = 2
    /\ call.rest_hours = 550
    /\ ~call.out.compliant

\* what the validator of the call says of the same pilot and a flight of y
WithDuration(y) ==
    validate_assignment(validator.rules, call.pilot, [duration_hours |-> y])

\* C30: the validator is monotone in the duration of the proposed flight,
\* for a fixed pilot and rule set: when it rejects a flight of x hours it
\* rejects every flight of y >= x hours, and when it accepts a flight of x
\* hours it accepts every flight of 0 <= y <= x hours.
C30_MonotoneInDuration ==
    (/\ call.op = "validate_assignment"
     /\ Has(call.flight, "duration_hours")
     /\ call.out.kind = "return")
      => LET x == call.flight.duration_hours
         IN  /\ Rejected(call.out)
                  => \A y \in DurationValues : y >= x => Rejected(WithDuration(y))
             /\ call.out.compliant
                  => \A y \in DurationValues :
                       (0 <= y /\ y <= x)
                         => /\ WithDuration(y).kind = "return"
                            /\ WithDuration(y).compliant

\* a flight of 2.1 h was rejected for a pilot for whom one of 2.0 h is accepted
C30_Witness ==
    /\ ValidatedUnderCompleteRules
    /\ CompleteInput(call.pilot, call.flight)
    /\ call.flight.duration_hours = 21
    /\ Rejected(call.out)
    /\ WithDuration(20).kind = "return" /\ WithDuration(20).compliant

====
